---------------------------- MODULE Spec2Model ----------------------------
(***************************************************************************)
(* A model of the wordle-helper inference engine: the pattern oracle       *)
(* (getPattern), the probe scorer (scoreGuess), the constraint deriver     *)
(* (buildConstraintsFromGrid), the candidate filter (filterWords) and the  *)
(* conflict detector (detectConflicts).                                    *)
(*                                                                         *)
(* Words are sequences of one-letter strings.  The code indexes words,     *)
(* rows and patterns from 0; the model keeps the code's 0-based positions  *)
(* in every value the code stores (greens keys, yellowPositions members)   *)
(* and reads position p of a sequence through At.                          *)
(***************************************************************************)
EXTENDS Integers, Sequences, FiniteSets, TLC

VARIABLES
    pc,           \* SpecPattern: "call" before getPattern ran, "done" after
    guess,        \* the guess word
    answer,       \* the answer word
    pattern,      \* the value getPattern returned
    words,        \* the vocabulary handed to filterWords
    constraints,  \* the Constraints value
    candidates,   \* filterWords(words, constraints)
    conflicts,    \* detectConflicts(constraints)
    grid,         \* the GridState handed to buildConstraintsFromGrid
    score,        \* the value scoreGuess returned
    vocabulary,   \* the vocabulary handed to getTopProbeWords
    limit,        \* the optional argument limit of getTopProbeWords
    probes,       \* the ProbeWord list getTopProbeWords returned
    tilt,         \* how binary64 rounding orders two equally split letters
    analysis,     \* the CandidateAnalysis analyzeCandidates returned
    history,      \* useUndoable: the list of kept values
    index,        \* useUndoable: the 0-based place of the current value
    activeRow,    \* App: the cursor's row, 0-based
    activeCol,    \* App: the cursor's column, 0-based
    calls         \* how useUndoable was called since it was fresh or reset

vars == <<pc, guess, answer, pattern, words, constraints, candidates, conflicts,
          grid, score, vocabulary, limit, probes, tilt, analysis,
          history, index, activeRow, activeCol, calls>>

\* The variables of getTopProbeWords and analyzeCandidates.
probeVars == <<vocabulary, limit, probes, tilt, analysis>>

\* The variables of useUndoable and of the App component.
appVars == <<history, index, activeRow, activeCol, calls>>

-----------------------------------------------------------------------------
(* Bounds of the model and constants of the program *)

\* getPattern works on exactly five positions (for i < 5).
PATTERN_LENGTH == 5

\* Number of letters of the alphabet the pattern inputs are drawn from.
NumPatternLetters == 3

Alphabet == <<"a", "b", "c", "d", "e">>

FirstLetters(n) == {Alphabet[i] : i \in 1..n}

PatternLetters == FirstLetters(NumPatternLetters)

\* All words of length n over the letters in L.
WordsOver(L, n) == [1..n -> L]

PatternWords == WordsOver(PatternLetters, PATTERN_LENGTH)

\* The letters, the 0-based positions and the words of the constraint
\* specifications.  filterWords and buildConstraintsFromGrid read the length
\* of each word and row they are given; the model hands them words and rows
\* of three letters over two letters.
Letters == {"a", "b"}

Positions == 0..2

WordLength == Cardinality(Positions)

Words == WordsOver(Letters, WordLength)

\* The values a hand-built minCount or maxCount entry may hold.
CountValues == 0..2

\* The longest vocabulary handed to filterWords, and all vocabularies.
VocabularyLengths == 0..2

Vocabularies == UNION {[1..n -> Words] : n \in VocabularyLengths}

\* The letters of the guess and of the candidates handed to scoreGuess, and
\* the longest candidate list.
ScoreLetters == {"a", "b"}

ScoreWords == WordsOver(ScoreLetters, PATTERN_LENGTH)

MaxCandidates == 2

CandidateLists == UNION {[1..n -> ScoreWords] : n \in 0..MaxCandidates}

\* The words of the vocabularies and candidate lists handed to
\* getTopProbeWords: some of them tell more of the others apart than the rest.
ProbeWordList ==
    << <<"a", "a", "a", "a", "a">>, <<"b", "a", "a", "a", "a">>,
       <<"c", "a", "a", "a", "a">>, <<"c", "b", "a", "a", "a">> >>

ProbeWords == {ProbeWordList[i] : i \in DOMAIN ProbeWordList}

\* Every list of at most n of these words.
ShortLists(n) == UNION {[1..k -> ProbeWords] : k \in 0..n}

\* The list of length n that repeats the list base.
Repeat(base, n) == [i \in 1..n |-> base[((i - 1) % Len(base)) + 1]]

\* ProbeWordList and its rotations.
Rotations ==
    {[i \in DOMAIN ProbeWordList |-> ProbeWordList[((i + k - 1) % Len(ProbeWordList)) + 1]] :
        k \in 0..(Len(ProbeWordList) - 1)}

PROBE_THRESHOLD == 150

\* The default of the parameter limit.
DefaultLimit == 5

\* The optional argument limit is a list: empty when the caller leaves it out,
\* and else holding the number.
Omitted == << >>

MaxVocabulary == 2

MaxLimit == 3

\* The vocabularies: the short ones, and some longer than the default limit.
ProbeVocabularies ==
    ShortLists(MaxVocabulary) \cup {Repeat(base, DefaultLimit + 1) : base \in Rotations}

\* The candidate lists: the short ones, and some at and just over the threshold.
ProbeCandidates ==
    ShortLists(MaxCandidates)
        \cup {Repeat(base, n) : base \in Rotations, n \in {PROBE_THRESHOLD, PROBE_THRESHOLD + 1}}

ProbeLimits == {Omitted} \cup {<<n>> : n \in 0..MaxLimit}

\* The words of the candidate lists handed to analyzeCandidates: three that
\* share one letter only, one that repeats a letter and shares letters with
\* them, and one of a single letter.
AnalysisWordList ==
    << <<"a", "b", "c", "d", "e">>, <<"f", "g", "h", "i", "a">>,
       <<"k", "l", "m", "n", "a">>, <<"a", "a", "b", "f", "k">>,
       <<"e", "e", "e", "e", "e">> >>

AnalysisWords == {AnalysisWordList[i] : i \in DOMAIN AnalysisWordList}

MaxAnalysed == 3

AnalysisLists == UNION {[1..n -> AnalysisWords] : n \in 0..MaxAnalysed}

\* The counts c below n / 2 of a list of n candidates: a letter held by c
\* candidates and one held by n - c are equally far from an even split.
LowCounts(n) == {c \in 1..n : 2 * c < n}

\* For each such c, the sign of |c/n - 0.5| - |(n-c)/n - 0.5| as binary64
\* arithmetic gives it: the two distances are equal as fractions, and the
\* rounding of the two quotients decides which one, if any, comes out smaller.
Tilts(n) == [LowCounts(n) -> {-1, 0, 1}]

\* The rows of the grids of SpecGrid.
GridRows == 1..2

\* The most lettered tiles of a grid of SpecGrid.
MaxTiles == 5

\* The size of the largest input of SpecFilter: the words of the vocabulary
\* plus the entries (green positions, yellowPositions keys, minCount keys,
\* maxCount keys, excluded letters) of the hand-built Constraints value.
MaxInputSize == 4

-----------------------------------------------------------------------------
(* Helpers shared by all functions *)

\* JavaScript's null, which getPattern writes over consumed letters.
NULL == "null"

\* The value of a variable of a specification that does not use it.
Unused == "unused"

\* The App component and its undo history take no part.
AppUnused ==
    /\ history = Unused
    /\ index = Unused
    /\ activeRow = Unused
    /\ activeCol = Unused
    /\ calls = Unused

\* word[pos] with the code's 0-based pos; "undefined" outside the word.
At(word, pos) == IF pos + 1 \in DOMAIN word THEN word[pos + 1] ELSE "undefined"

\* Array.prototype.indexOf: the least 0-based index holding x, or -1.
indexOf(arr, x) ==
    LET hits == {j \in 0..(Len(arr) - 1) : arr[j + 1] = x}
    IN  IF hits = {} THEN -1
        ELSE CHOOSE j \in hits : \A k \in hits : j <= k

\* The number of positions of seq holding x.
Occurrences(seq, x) == Cardinality({i \in DOMAIN seq : seq[i] = x})

-----------------------------------------------------------------------------
(* getPattern: src/lib/analyze.ts *)

\* The three working arrays before the first pass.
PatternStart(g, a) ==
    [result   |-> [i \in 1..PATTERN_LENGTH |-> "b"],
     answerCh |-> a,
     guessCh  |-> g]

\* GreenStep with the answer letter left in place (answerCh[i] = null lost).
GreenStepKeepsAnswer(st, i) ==
    IF At(st.guessCh, i) = At(st.answerCh, i)
    THEN [result   |-> [st.result  EXCEPT ![i + 1] = "g"],
          answerCh |-> st.answerCh,
          guessCh  |-> [st.guessCh EXCEPT ![i + 1] = NULL]]
    ELSE st

\* Iteration i of the first loop: an exact match is green and is consumed
\* in both working copies.
GreenStep(st, i) ==
    IF At(st.guessCh, i) = At(st.answerCh, i)
    THEN [result   |-> [st.result   EXCEPT ![i + 1] = "g"],
          answerCh |-> [st.answerCh EXCEPT ![i + 1] = NULL],
          guessCh  |-> [st.guessCh  EXCEPT ![i + 1] = NULL]]
    ELSE st

\* YellowStep with the answer letter left in place (answerCh[j] = null lost).
YellowStepKeepsAnswer(st, i) ==
    IF At(st.guessCh, i) = NULL THEN st
    ELSE LET j == indexOf(st.answerCh, At(st.guessCh, i))
         IN  IF j # -1 THEN [st EXCEPT !.result[i + 1] = "y"] ELSE st

\* Iteration i of the second loop: a remaining guess letter found among the
\* remaining answer letters is yellow and consumes the leftmost such letter.
YellowStep(st, i) ==
    IF At(st.guessCh, i) = NULL THEN st
    ELSE LET j == indexOf(st.answerCh, At(st.guessCh, i))
         IN  IF j # -1
             THEN [st EXCEPT !.result[i + 1] = "y", !.answerCh[j + 1] = NULL]
             ELSE st

\* The first loop stopping one position early (i < 4).
GreenPassShort == PATTERN_LENGTH - 1

\* The number of iterations of the first loop (i < 5).
GreenPassLength == PATTERN_LENGTH

RECURSIVE GreenPass(_, _)
GreenPass(st, i) ==
    IF i >= GreenPassLength THEN st ELSE GreenPass(GreenStep(st, i), i + 1)

RECURSIVE YellowPass(_, _)
YellowPass(st, i) ==
    IF i >= PATTERN_LENGTH THEN st ELSE YellowPass(YellowStep(st, i), i + 1)

getPattern(g, a) == YellowPass(GreenPass(PatternStart(g, a), 0), 0).result

-----------------------------------------------------------------------------
(* JavaScript objects and the Constraints type: src/lib/types *)

\* A Record<string, T> is the sequence of its entries in insertion order,
\* the order Object.keys and Object.entries list them in.
Keys(obj) == [i \in DOMAIN obj |-> obj[i].key]

KeySet(obj) == {obj[i].key : i \in DOMAIN obj}

Has(obj, k) == k \in KeySet(obj)

\* obj[k]; "undefined" for a key obj does not hold.
Get(obj, k) ==
    IF Has(obj, k) THEN (CHOOSE e \in {obj[i] : i \in DOMAIN obj} : e.key = k).val
    ELSE "undefined"

\* obj[k] = v: a held key keeps its place, a new key goes last.
Put(obj, k, v) ==
    IF Has(obj, k)
    THEN [i \in DOMAIN obj |-> IF obj[i].key = k THEN [key |-> k, val |-> v] ELSE obj[i]]
    ELSE Append(obj, [key |-> k, val |-> v])

\* obj[p] = v that leaves a held key as it is.
PutIndexKeepFirst(obj, p, v) ==
    [q \in DOMAIN obj \cup {p} |-> IF q \in DOMAIN obj THEN obj[q] ELSE v]

\* A Record<number, T> is a function on its keys, which Object.entries lists
\* in ascending order.
PutIndex(obj, p, v) == [q \in DOMAIN obj \cup {p} |-> IF q = p THEN v ELSE obj[q]]

\* The members of a finite set of integers in ascending order.
RECURSIVE Ascending(_)
Ascending(S) ==
    IF S = {} THEN << >>
    ELSE LET m == CHOOSE x \in S : \A y \in S : x <= y
         IN  <<m>> \o Ascending(S \ {m})

\* Constraints: greens maps positions to letters, yellowPositions maps
\* letters to sets of positions, minCount and maxCount map letters to
\* numbers, excluded is a set of letters.
EmptyConstraints ==
    [greens          |-> << >>,
     yellowPositions |-> << >>,
     minCount        |-> << >>,
     maxCount        |-> << >>,
     excluded        |-> {}]

-----------------------------------------------------------------------------
(* filterWords and countLetters: src/lib/filter.ts *)

\* String.prototype.includes for a one-letter argument.
includes(word, letter) == \E i \in DOMAIN word : word[i] = letter

\* countLetters: one pass over the word, counts[ch] = (counts[ch] ?? 0) + 1.
RECURSIVE countLettersFrom(_, _, _)
countLettersFrom(word, i, counts) ==
    IF i > Len(word) THEN counts
    ELSE countLettersFrom(word, i + 1,
             Put(counts, word[i],
                 (IF Has(counts, word[i]) THEN Get(counts, word[i]) ELSE 0) + 1))

countLetters(word) == countLettersFrom(word, 1, << >>)

\* letterCount[letter] ?? 0
CountOf(letterCount, letter) ==
    IF Has(letterCount, letter) THEN Get(letterCount, letter) ELSE 0

\* The green check made at every position of the word, known green or not.
GreenCheckEveryPosition(word, greens) ==
    \A pos \in 0..(Len(word) - 1) : pos \in DOMAIN greens /\ At(word, pos) = greens[pos]

\* 1. Green checks: exact position.
GreenCheck(word, greens) ==
    \A pos \in DOMAIN greens : At(word, pos) = greens[pos]

\* 2. Excluded checks: the letter must not appear.
ExcludedCheck(word, excluded) ==
    \A letter \in excluded : ~includes(word, letter)

\* 3. Yellow checks: the letter is present, and not at a disallowed position.
YellowCheck(word, yellowPositions) ==
    \A i \in DOMAIN yellowPositions :
        LET letter       == yellowPositions[i].key
            badPositions == yellowPositions[i].val
        IN  /\ includes(word, letter)
            /\ \A pos \in badPositions : At(word, pos) # letter

\* MinCheck accepting one occurrence fewer than the minimum.
MinCheckOffByOne(word, minCount) ==
    LET letterCount == countLetters(word)
    IN  \A i \in DOMAIN minCount :
            ~(CountOf(letterCount, minCount[i].key) + 1 < minCount[i].val)

\* 4. Count checks, minimum.
MinCheck(word, minCount) ==
    LET letterCount == countLetters(word)
    IN  \A i \in DOMAIN minCount :
            ~(CountOf(letterCount, minCount[i].key) < minCount[i].val)

\* MaxCheck comparing with >= in place of >.
MaxCheckStrict(word, maxCount) ==
    LET letterCount == countLetters(word)
    IN  \A i \in DOMAIN maxCount :
            ~(CountOf(letterCount, maxCount[i].key) >= maxCount[i].val)

\* 4. Count checks, maximum.
MaxCheck(word, maxCount) ==
    LET letterCount == countLetters(word)
    IN  \A i \in DOMAIN maxCount :
            ~(CountOf(letterCount, maxCount[i].key) > maxCount[i].val)

\* The predicate handed to words.filter: false at the first failing check.
WordPasses(word, c) ==
    /\ GreenCheck(word, c.greens)
    /\ ExcludedCheck(word, c.excluded)
    /\ YellowCheck(word, c.yellowPositions)
    /\ MinCheck(word, c.minCount)
    /\ MaxCheck(word, c.maxCount)

\* The filter started at the second word.
filterWordsFromSecond(ws, c) ==
    SelectSeq(SubSeq(ws, 2, Len(ws)), LAMBDA word : WordPasses(word, c))

filterWords(ws, c) == SelectSeq(ws, LAMBDA word : WordPasses(word, c))

-----------------------------------------------------------------------------
(* detectConflicts: src/lib/analyze.ts *)

\* A Conflict; its description is kept as the values the template
\* interpolates (the position shown is Number(posStr) + 1).
Conflict(type, letter, shown) ==
    [type |-> type, letter |-> letter, description |-> shown]

\* First loop: one conflict for each entry of greens with an excluded letter.
RECURSIVE GreenConflicts(_, _, _)
GreenConflicts(greens, excluded, order) ==
    IF order = << >> THEN << >>
    ELSE LET posStr == Head(order)
             letter == greens[posStr]
             rest   == GreenConflicts(greens, excluded, Tail(order))
         IN  IF letter \in excluded
             THEN <<Conflict("green-also-excluded", letter, <<letter, posStr + 1>>)>> \o rest
             ELSE rest

\* YellowConflicts without the excluded.has(letter) test.
YellowConflictsUnchecked(keys, excluded) ==
    [i \in DOMAIN keys |-> Conflict("yellow-also-excluded", keys[i], <<keys[i]>>)]

\* Second loop: one conflict for each key of yellowPositions that is excluded.
RECURSIVE YellowConflicts(_, _)
YellowConflicts(keys, excluded) ==
    IF keys = << >> THEN << >>
    ELSE LET letter == Head(keys)
             rest   == YellowConflicts(Tail(keys), excluded)
         IN  IF letter \in excluded
             THEN <<Conflict("yellow-also-excluded", letter, <<letter>>)>> \o rest
             ELSE rest

\* CountConflicts comparing with <= in place of <.
RECURSIVE CountConflictsInclusive(_, _, _)
CountConflictsInclusive(keys, minCount, maxCount) ==
    IF keys = << >> THEN << >>
    ELSE LET letter == Head(keys)
             min    == Get(minCount, letter)
             max    == Get(maxCount, letter)
             rest   == CountConflictsInclusive(Tail(keys), minCount, maxCount)
         IN  IF Has(maxCount, letter) /\ max <= min
             THEN <<Conflict("impossible-count", letter, <<letter, min, max>>)>> \o rest
             ELSE rest

\* Third loop: one conflict for each key of minCount whose maxCount is
\* defined and below it.
RECURSIVE CountConflicts(_, _, _)
CountConflicts(keys, minCount, maxCount) ==
    IF keys = << >> THEN << >>
    ELSE LET letter == Head(keys)
             min    == Get(minCount, letter)
             max    == Get(maxCount, letter)
             rest   == CountConflicts(Tail(keys), minCount, maxCount)
         IN  IF Has(maxCount, letter) /\ max < min
             THEN <<Conflict("impossible-count", letter, <<letter, min, max>>)>> \o rest
             ELSE rest

detectConflicts(c) ==
    GreenConflicts(c.greens, c.excluded, Ascending(DOMAIN c.greens))
        \o YellowConflicts(Keys(c.yellowPositions), c.excluded)
        \o CountConflicts(Keys(c.minCount), c.minCount, c.maxCount)

-----------------------------------------------------------------------------
(* SpecFilter: filterWords and detectConflicts applied to hand-built         *)
(* Constraints values, built one entry at a time from the empty value       *)

Entries(c) ==
    Cardinality(DOMAIN c.greens) + Len(c.yellowPositions) + Len(c.minCount)
        + Len(c.maxCount) + Cardinality(c.excluded)

\* The functions applied to the new Constraints value.
Evaluate(c) ==
    /\ constraints' = c
    /\ candidates' = filterWords(words, c)
    /\ conflicts' = detectConflicts(c)
    /\ UNCHANGED appVars
    /\ UNCHANGED <<pc, guess, answer, pattern, words, grid, score, probeVars>>

InitFilter ==
    /\ AppUnused
    /\ pc = Unused
    /\ guess = Unused
    /\ answer = Unused
    /\ pattern = Unused
    /\ words \in Vocabularies
    /\ constraints = EmptyConstraints
    /\ candidates = filterWords(words, EmptyConstraints)
    /\ conflicts = detectConflicts(EmptyConstraints)
    /\ grid = Unused
    /\ score = Unused
    /\ vocabulary = Unused
    /\ limit = Unused
    /\ probes = Unused
    /\ tilt = Unused
    /\ analysis = Unused

SetGreen ==
    /\ Len(words) + Entries(constraints) < MaxInputSize
    /\ \E pos \in Positions \ DOMAIN constraints.greens : \E letter \in Letters :
          Evaluate([constraints EXCEPT !.greens = PutIndex(@, pos, letter)])

SetYellowPositions ==
    /\ Len(words) + Entries(constraints) < MaxInputSize
    /\ \E letter \in Letters \ KeySet(constraints.yellowPositions) :
          \E badPositions \in SUBSET Positions :
              Evaluate([constraints EXCEPT !.yellowPositions = Put(@, letter, badPositions)])

SetMinCount ==
    /\ Len(words) + Entries(constraints) < MaxInputSize
    /\ \E letter \in Letters \ KeySet(constraints.minCount) : \E n \in CountValues :
          Evaluate([constraints EXCEPT !.minCount = Put(@, letter, n)])

SetMaxCount ==
    /\ Len(words) + Entries(constraints) < MaxInputSize
    /\ \E letter \in Letters \ KeySet(constraints.maxCount) : \E n \in CountValues :
          Evaluate([constraints EXCEPT !.maxCount = Put(@, letter, n)])

AddExcluded ==
    /\ Len(words) + Entries(constraints) < MaxInputSize
    /\ \E letter \in Letters \ constraints.excluded :
          Evaluate([constraints EXCEPT !.excluded = @ \cup {letter}])

NextFilter ==
    \/ SetGreen
    \/ SetYellowPositions
    \/ SetMinCount
    \/ SetMaxCount
    \/ AddExcluded

SpecFilter == InitFilter /\ [][NextFilter]_vars

-----------------------------------------------------------------------------
(* buildConstraintsFromGrid: src/lib/constraints.ts *)

\* A TileData value.
Tile(letter, state) == [letter |-> letter, state |-> state]

BlankTile == Tile("", "empty")

\* Rows that have no filled tiles are skipped.
RowSkipped(row) ==
    \A i \in DOMAIN row :
        row[i].letter = "" \/ row[i].state = "empty" \/ row[i].state = "unknown"

\* The three tallies of a row, before its first tile.
EmptyTallies == [confirmedInRow |-> << >>, totalInRow |-> << >>, greyInRow |-> << >>]

\* One tile of the tally loop with every tile that is not green or yellow
\* counted as grey.
TallyStepUncolouredAsGrey(t, tile) ==
    IF tile.letter = "" THEN t
    ELSE LET t1 == [t EXCEPT !.totalInRow = Put(@, tile.letter, CountOf(@, tile.letter) + 1)]
         IN  IF tile.state = "green" \/ tile.state = "yellow"
             THEN [t1 EXCEPT !.confirmedInRow = Put(@, tile.letter, CountOf(@, tile.letter) + 1)]
             ELSE [t1 EXCEPT !.greyInRow = Put(@, tile.letter, CountOf(@, tile.letter) + 1)]

\* One tile of the tally loop.
TallyStep(t, tile) ==
    IF tile.letter = "" THEN t
    ELSE LET t1 == [t EXCEPT !.totalInRow = Put(@, tile.letter, CountOf(@, tile.letter) + 1)]
         IN  IF tile.state = "green" \/ tile.state = "yellow"
             THEN [t1 EXCEPT !.confirmedInRow = Put(@, tile.letter, CountOf(@, tile.letter) + 1)]
             ELSE IF tile.state = "grey"
             THEN [t1 EXCEPT !.greyInRow = Put(@, tile.letter, CountOf(@, tile.letter) + 1)]
             ELSE t1

RECURSIVE TallyLoop(_, _, _)
TallyLoop(t, row, i) ==
    IF i > Len(row) THEN t ELSE TallyLoop(TallyStep(t, row[i]), row, i + 1)

Max(a, b) == IF a >= b THEN a ELSE b

\* CountStep with maxCount overwritten by every row that proves a count.
CountStepLastRowWins(c, letter, count, greyInRow) ==
    LET c1 == [c EXCEPT !.minCount = Put(@, letter, Max(CountOf(@, letter), count))]
    IN  IF Has(greyInRow, letter) /\ Get(greyInRow, letter) > 0
        THEN [c1 EXCEPT !.maxCount = Put(@, letter, count)]
        ELSE c1

\* CountStep with minCount overwritten by every row.
CountStepMinOverwritten(c, letter, count, greyInRow) ==
    LET c1 == [c EXCEPT !.minCount = Put(@, letter, count)]
    IN  IF Has(greyInRow, letter) /\ Get(greyInRow, letter) > 0
        THEN IF ~Has(c1.maxCount, letter) \/ count < Get(c1.maxCount, letter)
             THEN [c1 EXCEPT !.maxCount = Put(@, letter, count)]
             ELSE c1
        ELSE c1

\* One entry of confirmedInRow: minCount is raised to the confirmed count,
\* and with a grey copy in the same row maxCount is lowered to it.
CountStep(c, letter, count, greyInRow) ==
    LET c1 == [c EXCEPT !.minCount = Put(@, letter, Max(CountOf(@, letter), count))]
    IN  IF Has(greyInRow, letter) /\ Get(greyInRow, letter) > 0
        THEN IF ~Has(c1.maxCount, letter) \/ count < Get(c1.maxCount, letter)
             THEN [c1 EXCEPT !.maxCount = Put(@, letter, count)]
             ELSE c1
        ELSE c1

RECURSIVE CountLoop(_, _, _, _)
CountLoop(c, confirmedInRow, greyInRow, i) ==
    IF i > Len(confirmedInRow) THEN c
    ELSE CountLoop(CountStep(c, confirmedInRow[i].key, confirmedInRow[i].val, greyInRow),
                   confirmedInRow, greyInRow, i + 1)

\* One tile of the second loop with the grey branch left out.
TileStepGreyIgnored(c, col, tile, confirmedInRow) ==
    IF tile.letter = "" THEN c
    ELSE IF tile.state = "green"
    THEN [c EXCEPT !.greens = PutIndex(@, col, tile.letter)]
    ELSE IF tile.state = "yellow"
    THEN [c EXCEPT !.yellowPositions =
             Put(@, tile.letter,
                 (IF Has(@, tile.letter) THEN Get(@, tile.letter) ELSE {}) \cup {col})]
    ELSE c

\* One tile of the second loop over the row, at 0-based column col.
TileStep(c, col, tile, confirmedInRow) ==
    IF tile.letter = "" THEN c
    ELSE IF tile.state = "green"
    THEN [c EXCEPT !.greens = PutIndex(@, col, tile.letter)]
    ELSE IF tile.state = "yellow"
    THEN [c EXCEPT !.yellowPositions =
             Put(@, tile.letter,
                 (IF Has(@, tile.letter) THEN Get(@, tile.letter) ELSE {}) \cup {col})]
    ELSE IF tile.state = "grey"
    THEN IF ~Has(confirmedInRow, tile.letter)
         THEN [c EXCEPT !.excluded = @ \cup {tile.letter}]
         ELSE c
    ELSE c

RECURSIVE TileLoop(_, _, _, _)
TileLoop(c, row, confirmedInRow, col) ==
    IF col >= Len(row) THEN c
    ELSE TileLoop(TileStep(c, col, row[col + 1], confirmedInRow), row, confirmedInRow, col + 1)

\* The body of the loop over the rows.
RowStep(c, row) ==
    IF RowSkipped(row) THEN c
    ELSE LET t == TallyLoop(EmptyTallies, row, 1)
         IN  TileLoop(CountLoop(c, t.confirmedInRow, t.greyInRow, 1),
                      row, t.confirmedInRow, 0)

RECURSIVE RowLoop(_, _, _)
RowLoop(c, g, r) ==
    IF r > Len(g) THEN c ELSE RowLoop(RowStep(c, g[r]), g, r + 1)

\* CleanUp with its three loops left out.
CleanUpSkipped(c) == c

\* Clean up: a letter with minCount > 0, a key of yellowPositions or a value
\* of greens is deleted from excluded.
CleanUp(c) ==
    [c EXCEPT !.excluded =
        ((@ \ {c.minCount[i].key : i \in {j \in DOMAIN c.minCount : c.minCount[j].val > 0}})
            \ KeySet(c.yellowPositions))
            \ {c.greens[pos] : pos \in DOMAIN c.greens}]

buildConstraintsFromGrid(g) == CleanUp(RowLoop(EmptyConstraints, g, 1))

\* createEmptyGrid, with the model's numbers of rows and columns.
createEmptyGrid == [r \in GridRows |-> [col \in 1..WordLength |-> BlankTile]]

-----------------------------------------------------------------------------
(* SpecGrid: buildConstraintsFromGrid, filterWords and detectConflicts      *)
(* applied to every grid of lettered tiles in any of the four states        *)

\* The states of a lettered tile, and the lettered tiles.
LetteredStates == {"unknown", "grey", "yellow", "green"}

LetteredTiles == {Tile(letter, state) : letter \in Letters, state \in LetteredStates}

\* The letters of the model in alphabetical order.
LetterList == SelectSeq(Alphabet, LAMBDA letter : letter \in Letters)

\* Every word of ws with each letter of LetterList, from the i-th, put before it.
RECURSIVE Prefixed(_, _)
Prefixed(ws, i) ==
    IF i > Len(LetterList) THEN << >>
    ELSE [k \in DOMAIN ws |-> <<LetterList[i]>> \o ws[k]] \o Prefixed(ws, i + 1)

RECURSIVE WordList(_)
WordList(n) == IF n = 0 THEN << << >> >> ELSE Prefixed(WordList(n - 1), 1)

\* The vocabulary of the App: a fixed list, here every word once.
WORDS == WordList(WordLength)

Lettered(g) == {<<r, col>> \in GridRows \X Positions : g[r][col + 1].letter # ""}

\* The App's pipeline: constraints, candidates and conflicts of a grid.
Derive(g) ==
    /\ grid' = g
    /\ constraints' = buildConstraintsFromGrid(g)
    /\ candidates' = filterWords(words, constraints')
    /\ conflicts' = detectConflicts(constraints')
    /\ UNCHANGED appVars
    /\ UNCHANGED <<pc, guess, answer, pattern, words, score, probeVars>>

InitGrid ==
    /\ AppUnused
    /\ pc = Unused
    /\ guess = Unused
    /\ answer = Unused
    /\ pattern = Unused
    /\ words = WORDS
    /\ score = Unused
    /\ vocabulary = Unused
    /\ limit = Unused
    /\ probes = Unused
    /\ tilt = Unused
    /\ analysis = Unused
    /\ grid = createEmptyGrid
    /\ constraints = buildConstraintsFromGrid(createEmptyGrid)
    /\ candidates = filterWords(WORDS, buildConstraintsFromGrid(createEmptyGrid))
    /\ conflicts = detectConflicts(buildConstraintsFromGrid(createEmptyGrid))

\* A lettered tile is put on a cell after every lettered cell (in reading
\* order), so that every grid is built in one way.
PlaceTile ==
    /\ Cardinality(Lettered(grid)) < MaxTiles
    /\ \E r \in GridRows, col \in Positions :
          /\ \A cell \in Lettered(grid) :
                cell[1] < r \/ (cell[1] = r /\ cell[2] < col)
          /\ \E tile \in LetteredTiles : Derive([grid EXCEPT ![r][col + 1] = tile])

NextGrid == PlaceTile

SpecGrid == InitGrid /\ [][NextGrid]_vars

-----------------------------------------------------------------------------
(* scoreGuess: src/lib/analyze.ts *)

\* The quotient n / d of two lengths as a JavaScript number: NaN for 0 / 0,
\* Infinity for a positive number over 0, and otherwise the fraction num / den
\* (kept as its two terms).
Divide(n, d) ==
    IF d = 0
    THEN IF n = 0 THEN [kind |-> "NaN"] ELSE [kind |-> "Infinity"]
    ELSE [kind |-> "finite", num |-> n, den |-> d]

\* The Map counts after the loop over the candidates,
\* counts.set(pat, (counts.get(pat) ?? 0) + 1): one entry for each pattern,
\* in the order of first occurrence, holding the number of candidates that
\* give it.
PatternCounts(g, cands) ==
    LET pats   == SubSeq([i \in DOMAIN cands |-> getPattern(g, cands[i])], 1, Len(cands))
        firsts == SelectSeq([i \in DOMAIN cands |-> i],
                            LAMBDA i : \A j \in 1..(i - 1) : pats[j] # pats[i])
    IN  [k \in DOMAIN firsts |->
            [key |-> pats[firsts[k]],
             val |-> Cardinality({j \in DOMAIN cands : pats[j] = pats[firsts[k]]})]]

scoreGuess(g, cands) ==
    LET counts     == PatternCounts(g, cands)
        partitions == Len(counts)
    IN  [partitions |-> partitions, avgGroupSize |-> Divide(Len(cands), partitions)]

-----------------------------------------------------------------------------
(* SpecScore: scoreGuess applied to every guess and candidate list *)

InitScore ==
    /\ AppUnused
    /\ pc = "call"
    /\ guess \in ScoreWords
    /\ candidates \in CandidateLists
    /\ score = Unused
    /\ vocabulary = Unused
    /\ limit = Unused
    /\ probes = Unused
    /\ tilt = Unused
    /\ analysis = Unused
    /\ answer = Unused
    /\ pattern = Unused
    /\ words = Unused
    /\ constraints = Unused
    /\ conflicts = Unused
    /\ grid = Unused

CallScoreGuess ==
    /\ pc = "call"
    /\ score' = scoreGuess(guess, candidates)
    /\ pc' = "done"
    /\ UNCHANGED appVars
    /\ UNCHANGED <<guess, answer, pattern, words, constraints, candidates, conflicts, grid, probeVars>>

NextScore == CallScoreGuess

SpecScore == InitScore /\ [][NextScore]_vars

-----------------------------------------------------------------------------
(* getTopProbeWords: src/lib/analyze.ts *)

Sign(n) == IF n > 0 THEN 1 ELSE IF n < 0 THEN -1 ELSE 0

\* The sign of x - y for two JavaScript numbers; 0 stands for a difference of
\* zero or NaN, which Array.prototype.sort treats alike.
SignOfDifference(x, y) ==
    IF x.kind = "finite" /\ y.kind = "finite" THEN Sign(x.num * y.den - y.num * x.den)
    ELSE IF x.kind = "NaN" \/ y.kind = "NaN" THEN 0
    ELSE IF x.kind = "Infinity" /\ y.kind = "Infinity" THEN 0
    ELSE IF x.kind = "Infinity" THEN 1
    ELSE -1

\* The early return.
ProbeSkippedAtThreshold(cands) == Len(cands) = 0 \/ Len(cands) >= PROBE_THRESHOLD

ProbeSkipped(cands) == Len(cands) = 0 \/ Len(cands) > PROBE_THRESHOLD

\* The callback of map with candidateSet.has(word) always true.
ProbeEntryAlwaysCandidate(word, cands) ==
    LET s == scoreGuess(word, cands)
    IN  [word |-> word, partitions |-> s.partitions, avgGroupSize |-> s.avgGroupSize,
         isCandidate |-> TRUE]

\* The callback of map: the ProbeWord of one vocabulary word.
ProbeEntry(word, cands) ==
    LET s == scoreGuess(word, cands)
    IN  [word |-> word, partitions |-> s.partitions, avgGroupSize |-> s.avgGroupSize,
         isCandidate |-> word \in {cands[i] : i \in DOMAIN cands}]

\* The comparator with the partitions compared in ascending order.
ProbeCompareAscending(a, b) ==
    IF b.partitions # a.partitions
    THEN Sign(a.partitions - b.partitions)
    ELSE SignOfDifference(a.avgGroupSize, b.avgGroupSize)

\* The comparator of sort, as the sign of its result.
ProbeCompare(a, b) ==
    IF b.partitions # a.partitions
    THEN Sign(b.partitions - a.partitions)
    ELSE SignOfDifference(a.avgGroupSize, b.avgGroupSize)

\* Array.prototype.sort is stable: an entry goes after every entry already
\* placed that the comparator does not put after it.
RECURSIVE InsertProbe(_, _, _)
InsertProbe(sorted, entry, i) ==
    IF i > Len(sorted) THEN Append(sorted, entry)
    ELSE IF ProbeCompare(sorted[i], entry) > 0
    THEN SubSeq(sorted, 1, i - 1) \o <<entry>> \o SubSeq(sorted, i, Len(sorted))
    ELSE InsertProbe(sorted, entry, i + 1)

RECURSIVE SortProbes(_, _, _)
SortProbes(entries, i, sorted) ==
    IF i > Len(entries) THEN sorted
    ELSE SortProbes(entries, i + 1, InsertProbe(sorted, entries[i], 1))

\* list.slice(0, end)
slice(list, end) ==
    LET len   == Len(list)
        final == IF end < 0 THEN Max(len + end, 0) ELSE IF end < len THEN end ELSE len
    IN  SubSeq(list, 1, final)

\* The parameter limit = 5.
LimitOrDefault(lim) == IF lim = Omitted THEN DefaultLimit ELSE lim[1]

getTopProbeWords(cands, voc, lim) ==
    IF ProbeSkipped(cands) THEN << >>
    ELSE slice(SortProbes([i \in DOMAIN voc |-> ProbeEntry(voc[i], cands)], 1, << >>),
               LimitOrDefault(lim))

-----------------------------------------------------------------------------
(* SpecProbe: getTopProbeWords applied to candidate lists, vocabularies and *)
(* limits                                                                   *)

InitProbe ==
    /\ AppUnused
    /\ pc = "call"
    /\ candidates \in ProbeCandidates
    /\ vocabulary \in ProbeVocabularies
    /\ limit \in ProbeLimits
    /\ probes = Unused
    /\ tilt = Unused
    /\ analysis = Unused
    /\ guess = Unused
    /\ answer = Unused
    /\ pattern = Unused
    /\ words = Unused
    /\ constraints = Unused
    /\ conflicts = Unused
    /\ grid = Unused
    /\ score = Unused

CallGetTopProbeWords ==
    /\ pc = "call"
    /\ probes' = getTopProbeWords(candidates, vocabulary, limit)
    /\ pc' = "done"
    /\ UNCHANGED appVars
    /\ UNCHANGED <<guess, answer, pattern, words, constraints, candidates, conflicts,
                   grid, score, vocabulary, limit, tilt, analysis>>

NextProbe == CallGetTopProbeWords

SpecProbe == InitProbe /\ [][NextProbe]_vars

-----------------------------------------------------------------------------
(* analyzeCandidates: src/lib/analyze.ts *)

\* The positions the loops visit: pos = 0 .. 4.
ANALYSED_POSITIONS == 5

\* The top of the exploration list: slice(0, 10).
EXPLORATION_LIMIT == 10

\* The counters before the loop over the candidates.
AnalysisStart ==
    [overallCount |-> << >>,
     byPosCount   |-> [pos \in 0..(ANALYSED_POSITIONS - 1) |-> << >>],
     seen         |-> {}]

\* The body of the inner loop with the seen set ignored.
LetterStepEveryCopy(acc, word, pos) ==
    LET ch == At(word, pos)
    IN  IF ch = "undefined" THEN acc
        ELSE [acc EXCEPT !.overallCount = Put(@, ch, CountOf(@, ch) + 1),
                         !.byPosCount[pos] = Put(@, ch, CountOf(@, ch) + 1)]

\* The body of the inner loop: one position of one word.
LetterStep(acc, word, pos) ==
    LET ch == At(word, pos)
    IN  IF ch = "undefined" THEN acc
        ELSE LET counted ==
                     IF ch \notin acc.seen
                     THEN [acc EXCEPT !.overallCount = Put(@, ch, CountOf(@, ch) + 1),
                                      !.seen = @ \cup {ch}]
                     ELSE acc
             IN  [counted EXCEPT !.byPosCount[pos] = Put(@, ch, CountOf(@, ch) + 1)]

RECURSIVE LetterLoop(_, _, _)
LetterLoop(acc, word, pos) ==
    IF pos >= ANALYSED_POSITIONS THEN acc
    ELSE LetterLoop(LetterStep(acc, word, pos), word, pos + 1)

\* The loop over the candidates; seen starts empty for every word.
RECURSIVE CandidateLoop(_, _, _)
CandidateLoop(acc, cands, i) ==
    IF i > Len(cands) THEN acc
    ELSE CandidateLoop(LetterLoop([acc EXCEPT !.seen = {}], cands[i], 0), cands, i + 1)

\* The counts of a map divided by n, in the map's order.
Fractions(counts, n) ==
    [i \in DOMAIN counts |-> [key |-> counts[i].key, val |-> Divide(counts[i].val, n)]]

Abs(x) == IF x < 0 THEN -x ELSE x

\* The comparator with the distances compared in descending order.
ExplorationCompareFarthestFirst(a, b, t) ==
    Sign(Abs(2 * b.val.num - b.val.den) - Abs(2 * a.val.num - a.val.den))

\* The comparator Math.abs(a[1] - 0.5) - Math.abs(b[1] - 0.5), as the sign of
\* its result, for two entries c / n of overall.  The distances are
\* |2c - n| / 2n; when they differ the sign is that of their difference, the
\* same count gives the same number and 0, and for the counts c and n - c the
\* sign is the one binary64 rounding gives, t.
ExplorationCompare(a, b, t) ==
    LET ca == a.val.num
        cb == b.val.num
        n  == a.val.den
        da == Abs(2 * ca - n)
        db == Abs(2 * cb - n)
    IN  IF da # db THEN Sign(da - db)
        ELSE IF ca = cb THEN 0
        ELSE IF ca < cb THEN t[ca]
        ELSE -t[cb]

\* Array.prototype.sort is stable: an entry goes after every entry already
\* placed that the comparator does not put after it.
RECURSIVE InsertLetter(_, _, _, _)
InsertLetter(sorted, entry, i, t) ==
    IF i > Len(sorted) THEN Append(sorted, entry)
    ELSE IF ExplorationCompare(sorted[i], entry, t) > 0
    THEN SubSeq(sorted, 1, i - 1) \o <<entry>> \o SubSeq(sorted, i, Len(sorted))
    ELSE InsertLetter(sorted, entry, i + 1, t)

RECURSIVE SortLetters(_, _, _, _)
SortLetters(entries, i, sorted, t) ==
    IF i > Len(entries) THEN sorted
    ELSE SortLetters(entries, i + 1, InsertLetter(sorted, entries[i], 1, t), t)

analyzeCandidates(cands, t) ==
    LET n == Len(cands)
    IN  IF n = 0
        THEN [count |-> 0,
              frequency |-> [overall |-> << >>, byPosition |-> << >>],
              topExplorationLetters |-> << >>]
        ELSE LET acc        == CandidateLoop(AnalysisStart, cands, 1)
                 overall    == Fractions(acc.overallCount, n)
                 byPosition == [pos \in 0..(ANALYSED_POSITIONS - 1) |->
                                   Fractions(acc.byPosCount[pos], n)]
             IN  [count |-> n,
                  frequency |-> [overall |-> overall, byPosition |-> byPosition],
                  topExplorationLetters |->
                      Keys(slice(SortLetters(overall, 1, << >>, t), EXPLORATION_LIMIT))]

-----------------------------------------------------------------------------
(* SpecAnalyze: analyzeCandidates applied to candidate lists *)

InitAnalyze ==
    /\ AppUnused
    /\ pc = "call"
    /\ candidates \in AnalysisLists
    /\ tilt \in Tilts(Len(candidates))
    /\ analysis = Unused
    /\ vocabulary = Unused
    /\ limit = Unused
    /\ probes = Unused
    /\ guess = Unused
    /\ answer = Unused
    /\ pattern = Unused
    /\ words = Unused
    /\ constraints = Unused
    /\ conflicts = Unused
    /\ grid = Unused
    /\ score = Unused

CallAnalyzeCandidates ==
    /\ pc = "call"
    /\ analysis' = analyzeCandidates(candidates, tilt)
    /\ pc' = "done"
    /\ UNCHANGED appVars
    /\ UNCHANGED <<guess, answer, pattern, words, constraints, candidates, conflicts,
                   grid, score, vocabulary, limit, probes, tilt>>

NextAnalyze == CallAnalyzeCandidates

SpecAnalyze == InitAnalyze /\ [][NextAnalyze]_vars

-----------------------------------------------------------------------------
(* SpecPattern: getPattern applied to every pair of words *)

InitPattern ==
    /\ AppUnused
    /\ pc = "call"
    /\ guess \in PatternWords
    /\ answer \in PatternWords
    /\ pattern = Unused
    /\ words = Unused
    /\ constraints = Unused
    /\ candidates = Unused
    /\ conflicts = Unused
    /\ grid = Unused
    /\ score = Unused
    /\ vocabulary = Unused
    /\ limit = Unused
    /\ probes = Unused
    /\ tilt = Unused
    /\ analysis = Unused

CallGetPattern ==
    /\ pc = "call"
    /\ pattern' = getPattern(guess, answer)
    /\ pc' = "done"
    /\ UNCHANGED appVars
    /\ UNCHANGED <<guess, answer, words, constraints, candidates, conflicts, grid, score, probeVars>>

NextPattern == CallGetPattern

SpecPattern == InitPattern /\ [][NextPattern]_vars

-----------------------------------------------------------------------------
(* Claims about getPattern, checked under SpecPattern *)

PatternPositions == 0..(PATTERN_LENGTH - 1)

\* The positions matched in pass 1.
RefGreens(g, a) == {i \in PatternPositions : At(g, i) = At(a, i)}

\* The answer positions that hold the letter of guess position i and are
\* neither matched in pass 1 nor in consumed.
RefFree(g, a, i, consumed) ==
    {j \in PatternPositions \ (RefGreens(g, a) \cup consumed) : At(a, j) = At(g, i)}

\* The yellow guess positions among i..4, given the answer positions consumed
\* by the yellows before i: a remaining position whose letter is still free is
\* yellow and consumes the leftmost free answer position.
RECURSIVE RefYellows(_, _, _, _)
RefYellows(g, a, i, consumed) ==
    IF i >= PATTERN_LENGTH THEN {}
    ELSE LET free == RefFree(g, a, i, consumed)
         IN  IF i \notin RefGreens(g, a) /\ free # {}
             THEN {i} \cup RefYellows(g, a, i + 1,
                      consumed \cup {CHOOSE j \in free : \A k \in free : j <= k})
             ELSE RefYellows(g, a, i + 1, consumed)

\* The two-pass reference pattern.
RefPattern(g, a) ==
    LET yellows == RefYellows(g, a, 0, {})
    IN  [n \in 1..PATTERN_LENGTH |->
            IF (n - 1) \in RefGreens(g, a) THEN "g"
            ELSE IF (n - 1) \in yellows THEN "y"
            ELSE "b"]

\* C2: getPattern(guess, answer) is the two-pass reference pattern: 'g'
\* exactly at the equal positions; a remaining guess position is 'y' exactly
\* when an answer position neither matched in pass 1 nor consumed by an
\* earlier 'y' holds its letter, and 'b' otherwise; and
\* getPattern('crane', 'stare') = 'bygbg'.
C2_PatternIsTwoPassReference ==
    /\ pc = "done" => pattern = RefPattern(guess, answer)
    /\ getPattern(<<"c", "r", "a", "n", "e">>, <<"s", "t", "a", "r", "e">>)
         = <<"b", "y", "g", "b", "g">>

\* A pattern with a yellow tile and with a grey tile.
C2_Witness ==
    /\ pc = "done"
    /\ \E i, j \in PatternPositions : At(pattern, i) = "y" /\ At(pattern, j) = "b"

\* C3: for every letter L, the positions of the pattern that are not 'b' and
\* whose guess letter is L are at most as many as the L's of the answer.
C3_NoDoubleCount ==
    pc = "done" =>
        \A L \in PatternLetters :
            Cardinality({i \in PatternPositions :
                            At(pattern, i) # "b" /\ At(guess, i) = L})
                <= Occurrences(answer, L)

\* A second copy of a letter is grey although the answer holds the letter.
C3_Witness ==
    /\ pc = "done"
    /\ \E i, j \in PatternPositions :
          /\ i # j
          /\ At(guess, i) = At(guess, j)
          /\ At(pattern, i) # "b"
          /\ At(pattern, j) = "b"
          /\ Occurrences(answer, At(guess, j)) = 1

\* C4: getPattern(w, w) is all green, repeated letters included.
C4_SelfPatternAllGreen ==
    (pc = "done" /\ guess = answer) =>
        pattern = [n \in 1..PATTERN_LENGTH |-> "g"]

\* A word with a repeated letter scored against itself.
C4_Witness ==
    /\ pc = "done"
    /\ guess = answer
    /\ \E i, j \in PatternPositions : i # j /\ At(guess, i) = At(guess, j)
    /\ \E i, j \in PatternPositions : At(guess, i) # At(guess, j)

-----------------------------------------------------------------------------
(* Claims about filterWords and detectConflicts, checked under SpecFilter *)

\* The four checks as the contract states them.
RefGreensHold(word, c) ==
    \A pos \in DOMAIN c.greens : At(word, pos) = c.greens[pos]

RefNoExcluded(word, c) ==
    \A L \in c.excluded : Occurrences(word, L) = 0

RefYellowsHold(word, c) ==
    \A L \in KeySet(c.yellowPositions) :
        /\ Occurrences(word, L) >= 1
        /\ \A pos \in Get(c.yellowPositions, L) : At(word, pos) # L

RefCountsHold(word, c) ==
    /\ \A L \in KeySet(c.minCount) : Occurrences(word, L) >= Get(c.minCount, L)
    /\ \A L \in KeySet(c.maxCount) : Occurrences(word, L) <= Get(c.maxCount, L)

RefPasses(word, c) ==
    /\ RefGreensHold(word, c)
    /\ RefNoExcluded(word, c)
    /\ RefYellowsHold(word, c)
    /\ RefCountsHold(word, c)

\* out is the subsequence of ws at the indices in keep: as long as keep, and
\* its k-th word is the word of ws at the k-th smallest index of keep.
IsSubsequenceAt(out, ws, keep) ==
    /\ Len(out) = Cardinality(keep)
    /\ \A i \in keep : out[Cardinality({j \in keep : j <= i})] = ws[i]

Reported(kind, L) ==
    Cardinality({i \in DOMAIN conflicts :
                    conflicts[i].type = kind /\ conflicts[i].letter = L})

GreenPositionsOf(c, L) == {pos \in DOMAIN c.greens : c.greens[pos] = L}

ImpossibleCount(c, L) ==
    /\ Has(c.minCount, L)
    /\ Has(c.maxCount, L)
    /\ Get(c.maxCount, L) < Get(c.minCount, L)

ConflictKinds == {"green-also-excluded", "yellow-also-excluded", "impossible-count"}

\* The yellow and count conflicts are reported once for each offending
\* letter, and every conflict is of one of the three kinds.
YellowAndCountOncePerLetter ==
    /\ \A i \in DOMAIN conflicts : conflicts[i].type \in ConflictKinds
    /\ \A L \in Letters :
          /\ Reported("yellow-also-excluded", L)
               = IF Has(constraints.yellowPositions, L) /\ L \in constraints.excluded
                 THEN 1 ELSE 0
          /\ Reported("impossible-count", L)
               = IF ImpossibleCount(constraints, L) THEN 1 ELSE 0

\* greens = {0: 'a'} with excluded = {'a'} gives exactly one conflict.
ScenarioSix ==
    LET c == [EmptyConstraints EXCEPT !.greens = PutIndex(<< >>, 0, "a"),
                                      !.excluded = {"a"}]
        found == detectConflicts(c)
    IN  /\ Len(found) = 1
        /\ found[1].type = "green-also-excluded"
        /\ found[1].letter = "a"

\* C8 as stated: every offending letter is reported exactly once per kind,
\* and nothing else is reported.
C8_OncePerLetterAndKind ==
    /\ YellowAndCountOncePerLetter
    /\ \A L \in Letters :
          Reported("green-also-excluded", L)
            = IF GreenPositionsOf(constraints, L) # {} /\ L \in constraints.excluded
              THEN 1 ELSE 0
    /\ ScenarioSix

\* C8, amended: 'green-also-excluded' is reported once for each position of
\* greens whose letter is excluded; 'yellow-also-excluded' once for each key
\* of yellowPositions that is excluded; 'impossible-count' once for each
\* letter with both counts defined and maxCount < minCount; nothing else is
\* reported; greens = {0: 'a'} with excluded = {'a'} gives exactly one
\* green-also-excluded conflict for 'a'.
C8_OncePerGreenPosition ==
    /\ YellowAndCountOncePerLetter
    /\ \A L \in Letters :
          Reported("green-also-excluded", L)
            = IF L \in constraints.excluded
              THEN Cardinality(GreenPositionsOf(constraints, L)) ELSE 0
    /\ ScenarioSix

\* An excluded letter green at two positions, reported once for each.
C8_Witness ==
    \E L \in Letters :
        /\ L \in constraints.excluded
        /\ Cardinality(GreenPositionsOf(constraints, L)) = 2
        /\ Reported("green-also-excluded", L) = 2

\* C9: whenever detectConflicts reports a conflict, filterWords returns the
\* empty list, whatever the vocabulary.
C9_ConflictMeansNoCandidates ==
    conflicts # << >> => candidates = << >>

\* An impossible-count conflict with a vocabulary of two words.
C9_Witness ==
    /\ Len(words) = 2
    /\ \E i \in DOMAIN conflicts : conflicts[i].type = "impossible-count"
    /\ candidates = << >>

-----------------------------------------------------------------------------
(* Claims about buildConstraintsFromGrid, checked under SpecGrid *)

\* The green-or-yellow tiles and the grey tiles of letter L in a row.
ConfirmedIn(row, L) ==
    Cardinality({i \in DOMAIN row :
                    row[i].letter = L /\ row[i].state \in {"green", "yellow"}})

GreyIn(row, L) ==
    Cardinality({i \in DOMAIN row : row[i].letter = L /\ row[i].state = "grey"})

\* The rows of g that hold both a confirmed and a grey tile of L.
ExactRows(g, L) ==
    {r \in DOMAIN g : ConfirmedIn(g[r], L) > 0 /\ GreyIn(g[r], L) > 0}

Greatest(S) == CHOOSE x \in S : \A y \in S : y <= x

Least(S) == CHOOSE x \in S : \A y \in S : x <= y

\* minCount and maxCount of c are the maximum and the minimum the claim
\* states for grid g.
CountsAsStated(c, g) ==
    \A L \in Letters :
        /\ IF \E r \in DOMAIN g : ConfirmedIn(g[r], L) > 0
           THEN /\ Has(c.minCount, L)
                /\ Get(c.minCount, L) = Greatest({ConfirmedIn(g[r], L) : r \in DOMAIN g})
           ELSE ~Has(c.minCount, L)
        /\ IF ExactRows(g, L) # {}
           THEN /\ Has(c.maxCount, L)
                /\ Get(c.maxCount, L) = Least({ConfirmedIn(g[r], L) : r \in ExactRows(g, L)})
           ELSE ~Has(c.maxCount, L)

\* The counts derived from the first k rows are kept or tightened by the
\* rows after them.
LaterRowsOnlyTighten(c, g) ==
    \A k \in 0..Len(g) :
        LET before == buildConstraintsFromGrid(SubSeq(g, 1, k))
        IN  \A L \in Letters :
                /\ Has(before.minCount, L) =>
                      Has(c.minCount, L) /\ Get(c.minCount, L) >= Get(before.minCount, L)
                /\ Has(before.maxCount, L) =>
                      Has(c.maxCount, L) /\ Get(c.maxCount, L) <= Get(before.maxCount, L)

\* A letter three times in a row, two copies confirmed and one grey.
TwoOfThree(row, L) == ConfirmedIn(row, L) = 2 /\ GreyIn(row, L) = 1

\* The row 'a' green, 'a' yellow, 'a' grey alone gives minCount 2 and maxCount 2.
TwoOfThreeAlone ==
    LET c == buildConstraintsFromGrid(
                 <<<<Tile("a", "green"), Tile("a", "yellow"), Tile("a", "grey")>>>>)
    IN  Get(c.minCount, "a") = 2 /\ Get(c.maxCount, "a") = 2

GreenLetters(c) == {c.greens[pos] : pos \in DOMAIN c.greens}

\* C6: excluded is disjoint from the values of greens, from the keys of
\* yellowPositions and from the letters with minCount > 0.
C6_ExcludedDisjointFromConfirmed ==
    \A L \in constraints.excluded :
        /\ L \notin GreenLetters(constraints)
        /\ ~Has(constraints.yellowPositions, L)
        /\ ~(Has(constraints.minCount, L) /\ Get(constraints.minCount, L) > 0)

\* A letter grey and unconfirmed in one row and green or yellow in the other.
C6_Witness ==
    \E L \in Letters : \E r, q \in DOMAIN grid :
        /\ GreyIn(grid[r], L) > 0
        /\ ConfirmedIn(grid[r], L) = 0
        /\ ConfirmedIn(grid[q], L) > 0
        /\ L \notin constraints.excluded

\* Guess 'spell' with 'l' green at 3 and grey at 4: maxCount['l'] is 1 and
\* 'spell' does not survive.
SpellScenario ==
    LET row == <<Tile("s", "unknown"), Tile("p", "unknown"), Tile("e", "unknown"),
                 Tile("l", "green"), Tile("l", "grey")>>
        c == buildConstraintsFromGrid(<<row>>)
        spell == <<"s", "p", "e", "l", "l">>
        spelt == <<"s", "p", "e", "l", "t">>
    IN  /\ Get(c.maxCount, "l") = 1
        /\ filterWords(<<spell, spelt, spell>>, c) = <<spelt>>

\* C7: if a row has k >= 1 green-or-yellow tiles of L, every candidate holds
\* at least k copies of L; if that row also has a grey tile of L, every
\* candidate holds at most k copies of L; 'spell' with 'l' green at 3 and
\* grey at 4 never survives.
C7_CandidatesRespectRowCounts ==
    /\ \A r \in DOMAIN grid : \A L \in Letters :
          LET k == ConfirmedIn(grid[r], L)
          IN  k >= 1 =>
                \A i \in DOMAIN candidates :
                    /\ Occurrences(candidates[i], L) >= k
                    /\ GreyIn(grid[r], L) > 0 => Occurrences(candidates[i], L) <= k
    /\ SpellScenario

\* A row with one confirmed and one grey copy of a letter, with candidates
\* left, and a word of the vocabulary with two copies dropped.
C7_Witness ==
    \E L \in Letters : \E r \in DOMAIN grid :
        /\ ConfirmedIn(grid[r], L) = 1
        /\ GreyIn(grid[r], L) = 1
        /\ candidates # << >>
        /\ \E i \in DOMAIN words :
              /\ Occurrences(words[i], L) = 2
              /\ GreenCheck(words[i], constraints.greens)

-----------------------------------------------------------------------------
(* Claims about scoreGuess, checked under SpecScore *)

\* x * k = n for a JavaScript number x and lengths k and n: false for NaN and
\* for Infinity, whose products with k are NaN or Infinity.
ProductIs(x, k, n) == x.kind = "finite" /\ x.num * k = n * x.den

\* C10: scoreGuess returns partitions = the number of distinct patterns of
\* the guess over the candidates, and avgGroupSize with
\* avgGroupSize * partitions = |candidates|; for a non-empty list
\* 1 <= partitions <= |candidates|.
C10_ScoreIsPartitionCountAndMean ==
    pc = "done" =>
        /\ score.partitions
             = Cardinality({getPattern(guess, candidates[i]) : i \in DOMAIN candidates})
        /\ ProductIs(score.avgGroupSize, score.partitions, Len(candidates))
        /\ candidates # << >> =>
              (1 <= score.partitions /\ score.partitions <= Len(candidates))

-----------------------------------------------------------------------------
(* Claims about getTopProbeWords, checked under SpecProbe *)

\* The limit in force.
LimitInForce == IF limit = << >> THEN 5 ELSE limit[1]

Smaller(a, b) == IF a <= b THEN a ELSE b

\* C11: getTopProbeWords returns the empty list when candidates is empty or
\* has more than 150 entries, whatever the vocabulary; with 1 to 150
\* candidates it returns min(limit, |vocabulary|) results, limit defaulting
\* to 5.
C11_EmptyOutsideThresholdElseLimited ==
    pc = "done" =>
        IF Len(candidates) = 0 \/ Len(candidates) > 150
        THEN probes = << >>
        ELSE Len(probes) = Smaller(LimitInForce, Len(vocabulary))

C11_Witness ==
    /\ pc = "done"
    /\ Len(candidates) = 150
    /\ limit = Omitted
    /\ Len(vocabulary) > 5
    /\ Len(probes) = 5

\* The scores of the vocabulary words against the candidates, by position.
VocabularyScores ==
    SubSeq([i \in DOMAIN vocabulary |-> scoreGuess(vocabulary[i], candidates)],
           1, Len(vocabulary))

\* x < y and x = y for two finite quotients.
SmallerQuotient(x, y) == x.num * y.den < y.num * x.den

SameQuotient(x, y) == x.num * y.den = y.num * x.den

\* Vocabulary word j is ranked before vocabulary word i: more partitions, or
\* as many and a smaller avgGroupSize, or both equal and an earlier position.
RankedBefore(scores, j, i) ==
    \/ scores[j].partitions > scores[i].partitions
    \/ /\ scores[j].partitions = scores[i].partitions
       /\ SmallerQuotient(scores[j].avgGroupSize, scores[i].avgGroupSize)
    \/ /\ scores[j].partitions = scores[i].partitions
       /\ SameQuotient(scores[j].avgGroupSize, scores[i].avgGroupSize)
       /\ j < i

RankOf(scores, i) == Cardinality({j \in DOMAIN scores : RankedBefore(scores, j, i)}) + 1

\* C12: the list returned by getTopProbeWords is ordered by descending
\* partitions, ties by ascending avgGroupSize, remaining ties by position in
\* the vocabulary, and is the first `limit` entries of the whole vocabulary so
\* ordered (so it is a function of the scores alone).
C12_RankedByPartitionsThenMeanThenPosition ==
    (pc = "done" /\ Len(candidates) \in 1..150) =>
        LET scores == VocabularyScores
        IN  /\ Len(probes) = Smaller(LimitInForce, Len(vocabulary))
            /\ \A k \in DOMAIN probes :
                  \E i \in DOMAIN vocabulary :
                      /\ RankOf(scores, i) = k
                      /\ probes[k].word = vocabulary[i]
                      /\ probes[k].partitions = scores[i].partitions
                      /\ probes[k].avgGroupSize = scores[i].avgGroupSize
            /\ \A k \in 1..(Len(probes) - 1) :
                  \/ probes[k].partitions > probes[k + 1].partitions
                  \/ /\ probes[k].partitions = probes[k + 1].partitions
                     /\ ~SmallerQuotient(probes[k + 1].avgGroupSize, probes[k].avgGroupSize)

\* A truncated result whose order differs from the vocabulary's, with a strict
\* step and with a tie between two different words.
C12_Witness ==
    /\ pc = "done"
    /\ Len(probes) >= 3
    /\ Len(probes) < Len(vocabulary)
    /\ probes[1].word # vocabulary[1]
    /\ \E k \in 1..(Len(probes) - 1) : probes[k].partitions > probes[k + 1].partitions
    /\ \E k \in 1..(Len(probes) - 1) :
          /\ probes[k].partitions = probes[k + 1].partitions
          /\ probes[k].word # probes[k + 1].word

\* C19: every result r of getTopProbeWords has r.isCandidate = TRUE exactly
\* when r.word is a member of candidates, and r.partitions, r.avgGroupSize
\* equal to scoreGuess(r.word, candidates).
C19_ResultsCarryScoreAndMembership ==
    pc = "done" =>
        \A k \in DOMAIN probes :
            LET r == probes[k]
                s == scoreGuess(r.word, candidates)
            IN  /\ r.isCandidate = (\E i \in DOMAIN candidates : candidates[i] = r.word)
                /\ r.partitions = s.partitions
                /\ r.avgGroupSize = s.avgGroupSize

C19_Witness ==
    /\ pc = "done"
    /\ \E k \in DOMAIN probes : probes[k].isCandidate
    /\ \E k \in DOMAIN probes :
          /\ ~probes[k].isCandidate
          /\ \A i \in DOMAIN candidates : candidates[i] # probes[k].word

-----------------------------------------------------------------------------
(* Claims about analyzeCandidates, checked under SpecAnalyze *)

\* The letters of the candidates.
CandidateLetters == {candidates[i][p] : i \in DOMAIN candidates, p \in 1..5}

\* The number of candidates (a word listed twice counts twice) that hold L,
\* and that hold L at 0-based position p.
Containing(L) == Cardinality({i \in DOMAIN candidates : \E p \in 1..5 : candidates[i][p] = L})

HoldingAt(L, p) == Cardinality({i \in DOMAIN candidates : candidates[i][p + 1] = L})

\* The map f holds exactly the letters L with count(L) > 0, each with the
\* fraction count(L) / n.
IsFrequencyMap(f, count(_), n) ==
    /\ \A i, j \in DOMAIN f : f[i].key = f[j].key => i = j
    /\ KeySet(f) = {L \in CandidateLetters : count(L) > 0}
    /\ \A i \in DOMAIN f :
          /\ f[i].val.kind = "finite"
          /\ f[i].val.num * n = count(f[i].key) * f[i].val.den

\* C13: for a non-empty list of n candidates analyzeCandidates returns
\* count = n, frequency.overall[L] * n = the number of candidates containing
\* L (a repeated letter counts once, a word listed twice counts twice), and
\* frequency.byPosition[p][L] * n = the number of candidates with L at
\* position p, for p in 0..4; letters with a zero count are absent.
C13_FrequenciesAreCountsOverN ==
    (pc = "done" /\ candidates # << >>) =>
        LET n == Len(candidates)
        IN  /\ analysis.count = n
            /\ IsFrequencyMap(analysis.frequency.overall, Containing, n)
            /\ DOMAIN analysis.frequency.byPosition = 0..4
            /\ \A p \in 0..4 :
                  IsFrequencyMap(analysis.frequency.byPosition[p],
                                 LAMBDA L : HoldingAt(L, p), n)

\* A list with a word listed twice, a word that repeats a letter, and a
\* letter that some positions never hold.
C13_Witness ==
    /\ pc = "done"
    /\ Len(candidates) = 3
    /\ \E i, j \in DOMAIN candidates : i # j /\ candidates[i] = candidates[j]
    /\ \E i \in DOMAIN candidates : candidates[i][1] = "a" /\ candidates[i][2] = "a"
    /\ Has(analysis.frequency.overall, "a")
    /\ ~Has(analysis.frequency.byPosition[4], "a")

\* The distance of L from an even split, as |2 * c(L) - n|.
SplitDistance(L) == Abs(2 * Containing(L) - Len(candidates))

\* C14: topExplorationLetters contains only letters of frequency.overall, has
\* length min(10, number of distinct letters in the candidates), no letter
\* twice, and is ordered by non-decreasing |overall[L] - 0.5| (|2*c(L) - n|),
\* every omitted letter being at least as far from 0.5 as every listed one.
C14_ExplorationLettersClosestToEvenSplit ==
    pc = "done" =>
        LET top == analysis.topExplorationLetters
        IN  /\ \A k \in DOMAIN top : Has(analysis.frequency.overall, top[k])
            /\ Len(top) = Smaller(10, Cardinality(CandidateLetters))
            /\ \A j, k \in DOMAIN top : top[j] = top[k] => j = k
            /\ \A k \in 1..(Len(top) - 1) : SplitDistance(top[k]) <= SplitDistance(top[k + 1])
            /\ \A L \in CandidateLetters \ {top[k] : k \in DOMAIN top} :
                  \A k \in DOMAIN top : SplitDistance(top[k]) <= SplitDistance(L)

\* More than ten letters, one of them in every candidate and left out, and
\* the list not in the order of first occurrence.
C14_Witness ==
    /\ pc = "done"
    /\ Cardinality(CandidateLetters) > 10
    /\ Len(analysis.topExplorationLetters) = 10
    /\ \E L \in CandidateLetters :
          /\ Containing(L) = Len(candidates)
          /\ \A k \in 1..10 : analysis.topExplorationLetters[k] # L
    /\ analysis.topExplorationLetters
          # SubSeq(Keys(analysis.frequency.overall), 1, 10)

-----------------------------------------------------------------------------
(* Algebraic claims about filterWords, checked under SpecFilter *)

\* A Constraints value with no greens, no yellowPositions, no minCount, no
\* maxCount and no excluded letters.
NoConstraints(c) ==
    /\ DOMAIN c.greens = {}
    /\ c.yellowPositions = << >>
    /\ c.minCount = << >>
    /\ c.maxCount = << >>
    /\ c.excluded = {}

\* C15: filterWords(V, C) = V (same words, same order, same length) whenever
\* C has no greens, no yellowPositions, no minCount, no maxCount and no
\* excluded letters; in particular for C = buildConstraintsFromGrid(createEmptyGrid()).
C15_EmptyConstraintsKeepVocabulary ==
    /\ NoConstraints(constraints) => candidates = words
    /\ NoConstraints(buildConstraintsFromGrid(createEmptyGrid))
    /\ filterWords(words, buildConstraintsFromGrid(createEmptyGrid)) = words

C15_Witness ==
    /\ NoConstraints(constraints)
    /\ Len(words) = 2
    /\ words[1] # words[2]
    /\ candidates = words

\* C16: filterWords is idempotent: filterWords(filterWords(V, C), C) =
\* filterWords(V, C) for every vocabulary V and Constraints C.
C16_FilterIsIdempotent ==
    /\ candidates = filterWords(words, constraints)
    /\ filterWords(candidates, constraints) = candidates

C16_Witness ==
    /\ ~NoConstraints(constraints)
    /\ candidates # << >>
    /\ Len(candidates) < Len(words)
    /\ filterWords(candidates, constraints) = candidates

-----------------------------------------------------------------------------
(* Further claims about buildConstraintsFromGrid, checked under SpecGrid *)

Uncoloured(tile) == tile.state = "empty" \/ tile.state = "unknown"

\* The grid with every empty or unknown tile blanked.
Blanked(g) ==
    [r \in DOMAIN g |->
        [col \in DOMAIN g[r] |-> IF Uncoloured(g[r][col]) THEN BlankTile ELSE g[r][col]]]

\* The grid with every unknown tile put in state 'empty', its letter kept.
UnknownAsEmpty(g) ==
    [r \in DOMAIN g |->
        [col \in DOMAIN g[r] |->
            IF g[r][col].state = "unknown" THEN Tile(g[r][col].letter, "empty")
            ELSE g[r][col]]]

\* C17: tiles in state 'empty' or 'unknown' never contribute a constraint:
\* buildConstraintsFromGrid(grid) equals buildConstraintsFromGrid of the grid
\* with every such tile blanked, also when they share a row with coloured
\* tiles or repeat a letter coloured in the row; a grid whose tiles are all
\* empty or unknown yields empty constraints.
C17_UncolouredTilesContributeNothing ==
    LET blanked == buildConstraintsFromGrid(Blanked(grid))
    IN  /\ constraints = blanked
        /\ buildConstraintsFromGrid(UnknownAsEmpty(grid)) = blanked
        /\ (\A r \in DOMAIN grid : \A col \in DOMAIN grid[r] : Uncoloured(grid[r][col]))
              => NoConstraints(constraints)

\* An unknown tile in a row with a green and a grey tile of its letter.
C17_Witness ==
    /\ constraints = buildConstraintsFromGrid(Blanked(grid))
    /\ \E r \in DOMAIN grid : \E i, j, k \in DOMAIN grid[r] :
          /\ grid[r][i].state = "unknown"
          /\ grid[r][j] = Tile(grid[r][i].letter, "green")
          /\ grid[r][k] = Tile(grid[r][i].letter, "grey")
    /\ ~NoConstraints(constraints)

\* The rows with a green tile at 0-based column p.
GreenRowsAt(p) == {r \in DOMAIN grid : grid[r][p + 1].state = "green"}

\* The columns at which L is yellow in some row.
YellowColumns(L) ==
    {p \in Positions : \E r \in DOMAIN grid : grid[r][p + 1] = Tile(L, "yellow")}

\* C18: yellowPositions[L] is exactly the set of columns at which L is yellow
\* in any row, with a key only for letters that have a yellow tile, and
\* greens[p] is defined exactly when some row has a green tile at column p,
\* and holds the letter of the last such row.
C18_YellowUnionAndLastGreen ==
    /\ KeySet(constraints.yellowPositions) = {L \in Letters : YellowColumns(L) # {}}
    /\ \A i, j \in DOMAIN constraints.yellowPositions :
          constraints.yellowPositions[i].key = constraints.yellowPositions[j].key => i = j
    /\ \A L \in KeySet(constraints.yellowPositions) :
          Get(constraints.yellowPositions, L) = YellowColumns(L)
    /\ DOMAIN constraints.greens = {p \in Positions : GreenRowsAt(p) # {}}
    /\ \A p \in DOMAIN constraints.greens :
          LET last == CHOOSE r \in GreenRowsAt(p) : \A q \in GreenRowsAt(p) : q <= r
          IN  constraints.greens[p] = grid[last][p + 1].letter

\* Two rows green at one column with different letters, and a letter yellow
\* at different columns of two rows.
C18_Witness ==
    /\ \E p \in Positions :
          /\ grid[1][p + 1].state = "green"
          /\ grid[2][p + 1].state = "green"
          /\ grid[1][p + 1].letter # grid[2][p + 1].letter
          /\ constraints.greens[p] = grid[2][p + 1].letter
    /\ \E L \in Letters : \E p, q \in Positions :
          /\ p # q
          /\ grid[1][p + 1] = Tile(L, "yellow")
          /\ grid[2][q + 1] = Tile(L, "yellow")
          /\ Get(constraints.yellowPositions, L) = {p, q}

-----------------------------------------------------------------------------
(* Degenerate inputs, checked under SpecScore *)

\* The functions other than scoreGuess on their degenerate inputs.
EmptyInputsGiveEmptyOutputs ==
    /\ NoConstraints(buildConstraintsFromGrid(<< >>))
    /\ NoConstraints(buildConstraintsFromGrid(createEmptyGrid))
    /\ filterWords(<< >>, EmptyConstraints) = << >>
    /\ filterWords(<< >>, buildConstraintsFromGrid(<<[col \in 1..WordLength |-> Tile("a", "green")]>>))
          = << >>
    /\ analyzeCandidates(<< >>, << >>)
          = [count |-> 0,
             frequency |-> [overall |-> << >>, byPosition |-> << >>],
             topExplorationLetters |-> << >>]
    /\ getTopProbeWords(<< >>, <<guess>>, Omitted) = << >>
    /\ getTopProbeWords(candidates, << >>, Omitted) = << >>

\* C20: degenerate inputs give well-defined values and never an undefined
\* number: an empty grid gives empty constraints, an empty vocabulary gives
\* [], analyzeCandidates([]) gives count 0 with empty maps and no exploration
\* letters, getTopProbeWords with empty candidates or an empty vocabulary
\* gives [], and scoreGuess(guess, []) gives a defined partitions and a
\* defined avgGroupSize.
C20_DegenerateInputsAreDefined ==
    /\ EmptyInputsGiveEmptyOutputs
    /\ (pc = "done" /\ candidates = << >>) =>
          /\ score.partitions \in Nat
          /\ score.avgGroupSize.kind = "finite"

\* C26: a letter L is in excluded exactly when L has at least one grey tile
\* in the grid and no green or yellow tile in any row; a letter whose grey
\* tiles all sit in rows where it is also confirmed is never excluded.
C26_ExcludedIsGreyAndNeverConfirmed ==
    \A L \in Letters :
        L \in constraints.excluded
            <=> /\ \E r \in DOMAIN grid : GreyIn(grid[r], L) > 0
                /\ \A r \in DOMAIN grid : ConfirmedIn(grid[r], L) = 0

\* One letter grey and never confirmed, another grey only beside a confirmed
\* copy, and a third case: grey alone in one row and confirmed in the other.
C26_Witness ==
    /\ \E L \in Letters :
          /\ L \in constraints.excluded
          /\ GreyIn(grid[1], L) > 0
    /\ \E L \in Letters :
          /\ L \notin constraints.excluded
          /\ GreyIn(grid[1], L) > 0
          /\ ConfirmedIn(grid[1], L) > 0
    /\ \E L \in Letters :
          /\ L \notin constraints.excluded
          /\ GreyIn(grid[2], L) > 0
          /\ ConfirmedIn(grid[2], L) = 0

\* C28: every letter L with maxCount[L] defined also has minCount[L] defined
\* and 1 <= maxCount[L] <= minCount[L]; hence an 'impossible-count' conflict
\* arises exactly when maxCount[L] differs from minCount[L], and maxCount 0 is
\* never produced.
C28_MaxCountBetweenOneAndMinCount ==
    /\ \A L \in KeySet(constraints.maxCount) :
          /\ Has(constraints.minCount, L)
          /\ 1 <= Get(constraints.maxCount, L)
          /\ Get(constraints.maxCount, L) <= Get(constraints.minCount, L)
    /\ \A L \in Letters :
          Reported("impossible-count", L) =
              IF Has(constraints.maxCount, L)
                   /\ Get(constraints.maxCount, L) # CountOf(constraints.minCount, L)
              THEN 1 ELSE 0

\* A letter whose maxCount, proved by one row, is below the minCount another
\* row proves.
C28_Witness ==
    \E L \in Letters :
        /\ Has(constraints.maxCount, L)
        /\ Get(constraints.maxCount, L) = 1
        /\ Get(constraints.minCount, L) = 2
        /\ Reported("impossible-count", L) = 1

\* The grid before its last row, and the last row.
EarlierRows == SubSeq(grid, 1, Len(grid) - 1)

LastRow == grid[Len(grid)]

\* The candidates are among the words the earlier rows left.
Narrowed ==
    LET before == filterWords(words, buildConstraintsFromGrid(EarlierRows))
    IN  \A i \in DOMAIN candidates : \E j \in DOMAIN before : before[j] = candidates[i]

\* The last row neither confirms a letter the earlier rows exclude nor puts a
\* green tile on a column where the earlier rows hold another green letter.
LastRowKeepsEarlierEvidence ==
    LET earlier == buildConstraintsFromGrid(EarlierRows)
    IN  /\ \A L \in earlier.excluded : ConfirmedIn(LastRow, L) = 0
        /\ \A p \in DOMAIN earlier.greens :
              LastRow[p + 1].state = "green" => LastRow[p + 1].letter = earlier.greens[p]

\* C27 as stated: evidence only narrows: for every grid and every further row
\* r, filterWords(V, buildConstraintsFromGrid(grid followed by r)) is a subset
\* of filterWords(V, buildConstraintsFromGrid(grid)), whatever the marking of r.
C27_EvidenceOnlyNarrows == Narrowed

\* C27 amended: a further row narrows the candidates when it confirms no
\* letter that the earlier rows exclude and puts no green tile on a column
\* where the earlier rows hold another green letter.
C27_ConsistentRowNarrows == LastRowKeepsEarlierEvidence => Narrowed

\* A last row that keeps the earlier evidence and eliminates some but not all
\* of the words the first row left.
C27_Witness ==
    /\ LastRowKeepsEarlierEvidence
    /\ ~RowSkipped(grid[1])
    /\ ~RowSkipped(LastRow)
    /\ candidates # << >>
    /\ Len(candidates) < Len(filterWords(words, buildConstraintsFromGrid(EarlierRows)))

\* Words over the letters of the grid and one more letter, which stands for
\* every letter the grid does not hold.
OtherLetter == "z"

AnyWords == WordsOver(Letters \cup {OtherLetter}, WordLength)

Satisfiable(c) == \E w \in AnyWords : WordPasses(w, c)

\* C25: a grid with mutually inconsistent evidence is flagged: for every grid
\* whose derived constraints no word can satisfy, detectConflicts returns at
\* least one conflict.
C25_UnsatisfiableIsFlagged ==
    ~Satisfiable(constraints) => conflicts # << >>

-----------------------------------------------------------------------------
(* SpecPlay: truthful use.  An answer is fixed; each guess is entered in    *)
(* the next blank row and coloured as getPattern colours it against the     *)
(* answer; the App derives constraints, candidates and conflicts.           *)

\* The letters of guesses and answers, and the letters of the vocabulary.
PlayLetters == {"a", "b"}

VocabularyLetters == <<"a", "b", "c">>

PlayWords == WordsOver(PlayLetters, PATTERN_LENGTH)

\* The k-th word, from 0, of the words of PATTERN_LENGTH letters over
\* VocabularyLetters in alphabetical order.
VocabularyWord(k) ==
    [i \in 1..PATTERN_LENGTH |->
        VocabularyLetters[((k \div (Len(VocabularyLetters) ^ (PATTERN_LENGTH - i)))
                               % Len(VocabularyLetters)) + 1]]

\* The word list: every word over VocabularyLetters, so it holds the answer.
PlayVocabulary ==
    [k \in 1..(Len(VocabularyLetters) ^ PATTERN_LENGTH) |-> VocabularyWord(k - 1)]

\* The rows of the grid of SpecPlay.
PlayRows == 1..2

\* The tile state the user gives a tile that Wordle shows in colour ch.
StateOfColour(ch) ==
    IF ch = "g" THEN "green" ELSE IF ch = "y" THEN "yellow" ELSE "grey"

\* The row of guess g coloured by the pattern p.
ColouredRow(g, p) ==
    [i \in 1..PATTERN_LENGTH |-> Tile(g[i], StateOfColour(p[i]))]

BlankRow == [i \in 1..PATTERN_LENGTH |-> BlankTile]

\* The rows of the grid that hold a guess.
Guessed == {r \in DOMAIN grid : grid[r] # BlankRow}

InitPlay ==
    /\ AppUnused
    /\ answer \in PlayWords
    /\ guess = << >>
    /\ pattern = << >>
    /\ grid = [r \in PlayRows |-> BlankRow]
    /\ words = PlayVocabulary
    /\ constraints = buildConstraintsFromGrid(grid)
    /\ candidates = filterWords(words, constraints)
    /\ conflicts = detectConflicts(constraints)
    /\ pc = Unused
    /\ score = Unused
    /\ vocabulary = Unused
    /\ limit = Unused
    /\ probes = Unused
    /\ tilt = Unused
    /\ analysis = Unused

\* The user enters guess g in the next blank row and marks it truthfully.
EnterGuess(g) ==
    /\ Cardinality(Guessed) + 1 \in PlayRows
    /\ guess' = g
    /\ pattern' = getPattern(g, answer)
    /\ grid' = [grid EXCEPT ![Cardinality(Guessed) + 1] = ColouredRow(g, pattern')]
    /\ constraints' = buildConstraintsFromGrid(grid')
    /\ candidates' = filterWords(words, constraints')
    /\ conflicts' = detectConflicts(constraints')
    /\ UNCHANGED appVars
    /\ UNCHANGED <<pc, answer, words, score, probeVars>>

NextPlay == \E g \in PlayWords : EnterGuess(g)

SpecPlay == InitPlay /\ [][NextPlay]_vars

-----------------------------------------------------------------------------
(* C23 and C24: truthful use *)

Survives(w) == \E i \in DOMAIN candidates : candidates[i] = w

\* C23: soundness under truthful use: when every filled row is a guess
\* coloured by getPattern(guess, answer) and the vocabulary holds the answer,
\* the answer is among the candidates and there is no conflict.
C23_AnswerSurvivesTruthfulRows ==
    /\ Survives(answer)
    /\ conflicts = << >>

\* C23 witness: two truthful rows, neither the answer, with an exact count
\* learned, leave the answer among fewer candidates than the vocabulary.
C23_Witness ==
    /\ Guessed = PlayRows
    /\ \A r \in PlayRows : grid[r] # ColouredRow(answer, getPattern(answer, answer))
    /\ constraints.maxCount # << >>
    /\ Survives(answer)
    /\ Len(candidates) < Len(words)

\* C24: for a single-row grid whose row is the guess coloured by
\* getPattern(guess, answer), every survivor w of filterWords gives the same
\* colours: getPattern(guess, w) = getPattern(guess, answer).
C24_SurvivorsGiveTheSamePattern ==
    Cardinality(Guessed) = 1 =>
        \A i \in DOMAIN candidates : getPattern(guess, candidates[i]) = pattern

-----------------------------------------------------------------------------
(* useUndoable: hooks/useUndoable.  The hook's state is the record of its   *)
(* two useState cells, history and index.                                   *)

MAX_HISTORY == 50

Min(a, b) == IF a <= b THEN a ELSE b

\* list.slice(start): from start, counted from the end when negative.
sliceFrom(list, start) ==
    LET len   == Len(list)
        first == IF start < 0 THEN Max(len + start, 0) ELSE Min(start, len)
    IN  SubSeq(list, first + 1, len)

\* useState([initialValue]), useState(0)
useUndoable(initialValue) == [history |-> <<initialValue>>, index |-> 0]

current(u) == u.history[u.index + 1]

canUndo(u) == u.index > 0

\* set: the redo states above index are dropped, the value is appended, the
\* last MAX_HISTORY values are kept and index moves up to MAX_HISTORY - 1.
set(u, value) ==
    LET trimmed == slice(u.history, u.index + 1)
        next    == sliceFrom(Append(trimmed, value), -MAX_HISTORY)
    IN  [history |-> next, index |-> Min(u.index + 1, MAX_HISTORY - 1)]

undo(u) == IF canUndo(u) THEN [u EXCEPT !.index = @ - 1] ELSE u

reset(u, value) == [history |-> <<value>>, index |-> 0]

\* The hook as the variables hold it.
hook == [history |-> history, index |-> index]

-----------------------------------------------------------------------------
(* SpecUndo: useUndoable from fresh.  The initial value is 0 and the k-th   *)
(* set since the hook was fresh or reset writes k, so the value that was    *)
(* current before the k-th set is k - 1.  calls counts the set calls, the   *)
(* undo calls made since the last set, and tells whether a set followed an  *)
(* undo.                                                                    *)

\* The most set calls of a behaviour: more than the history can hold.
MaxSets == MAX_HISTORY + 2

Fresh == [sets |-> 0, undos |-> 0, branched |-> FALSE]

InitUndo ==
    /\ history = useUndoable(0).history
    /\ index = useUndoable(0).index
    /\ calls = Fresh
    /\ activeRow = Unused
    /\ activeCol = Unused
    /\ pc = Unused
    /\ guess = Unused
    /\ answer = Unused
    /\ pattern = Unused
    /\ words = Unused
    /\ constraints = Unused
    /\ candidates = Unused
    /\ conflicts = Unused
    /\ grid = Unused
    /\ score = Unused
    /\ vocabulary = Unused
    /\ limit = Unused
    /\ probes = Unused
    /\ tilt = Unused
    /\ analysis = Unused

libraryVars == <<pc, guess, answer, pattern, words, constraints, candidates,
                 conflicts, grid, score, probeVars>>

\* set(value) with a value never set before; one set may follow an undo.
CallSet ==
    /\ calls.sets < MaxSets
    /\ calls.undos > 0 => ~calls.branched
    /\ history' = set(hook, calls.sets + 1).history
    /\ index' = set(hook, calls.sets + 1).index
    /\ calls' = [sets |-> calls.sets + 1, undos |-> 0,
                 branched |-> calls.branched \/ calls.undos > 0]
    /\ UNCHANGED <<activeRow, activeCol>>
    /\ UNCHANGED libraryVars

\* undo(), also when canUndo is false.
CallUndo ==
    /\ calls.undos <= calls.sets
    /\ history' = undo(hook).history
    /\ index' = undo(hook).index
    /\ calls' = [calls EXCEPT !.undos = @ + 1]
    /\ UNCHANGED <<activeRow, activeCol>>
    /\ UNCHANGED libraryVars

\* reset(0): the hook is as it was when fresh.
CallReset ==
    /\ history' = reset(hook, 0).history
    /\ index' = reset(hook, 0).index
    /\ calls' = Fresh
    /\ UNCHANGED <<activeRow, activeCol>>
    /\ UNCHANGED libraryVars

NextUndo == CallSet \/ CallUndo \/ CallReset

SpecUndo == InitUndo /\ [][NextUndo]_vars

-----------------------------------------------------------------------------
(* C21: the undo history *)

\* C21: the undo history holds up to 50 steps: after n <= 50 consecutive set
\* calls on a fresh or reset hook, n consecutive undo calls restore one after
\* another the value that was current before each set, ending on the initial
\* value with canUndo false; an undo with canUndo false changes nothing; a
\* reset leaves canUndo false.
C21_FiftyStepsAreUndone ==
    (~calls.branched /\ calls.sets <= 50) =>
        /\ current(hook) = calls.sets - Min(calls.undos, calls.sets)
        /\ canUndo(hook) <=> calls.undos < calls.sets

\* What the hook does keep: MAX_HISTORY values, the current one among them.
C21_FortyNineStepsAreUndone ==
    (~calls.branched /\ calls.sets < MAX_HISTORY) =>
        /\ current(hook) = calls.sets - Min(calls.undos, calls.sets)
        /\ canUndo(hook) <=> calls.undos < calls.sets

-----------------------------------------------------------------------------
(* The App component: App.tsx.  The grid of the model has two rows of two   *)
(* tiles; rows and columns are numbered from 0 as the cursor numbers them.  *)

AppRows == 0..1

AppColumns == 0..1

MAX_ROWS == Cardinality(AppRows)

WORD_LENGTH == Cardinality(AppColumns)

\* STATE_CYCLE with green left green.
STATE_CYCLE_GreenStays(state) ==
    IF state = "grey" THEN "yellow"
    ELSE IF state = "yellow" THEN "green"
    ELSE IF state = "green" THEN "green"
    ELSE "grey"

STATE_CYCLE(state) ==
    IF state = "empty" THEN "grey"
    ELSE IF state = "unknown" THEN "grey"
    ELSE IF state = "grey" THEN "yellow"
    ELSE IF state = "yellow" THEN "green"
    ELSE "grey"

\* A deep copy: a new grid of new tiles with the same letters and states.
cloneGrid(g) ==
    [r \in DOMAIN g |-> [col \in DOMAIN g[r] |-> Tile(g[r][col].letter, g[r][col].state)]]

\* createEmptyGrid(), with the App model's numbers of rows and columns.
EmptyAppGrid == [r \in 1..MAX_ROWS |-> [col \in 1..WORD_LENGTH |-> BlankTile]]

\* The keys handleKey passes on, and String.prototype.toLowerCase on them.
AppKeys == {"a", "b", "A"}

toLowerCase(letter) == IF letter = "A" THEN "a" ELSE letter

\* The tile typed over with its state left as it was.
TypedTileKeepsState(tile, letter) == Tile(toLowerCase(letter), tile.state)

\* handleLetterInput's change of the tile under the cursor.
TypedTile(tile, letter) ==
    Tile(toLowerCase(letter),
         IF tile.state = "empty" \/ tile.state = "unknown" THEN "unknown" ELSE tile.state)

\* ResolvedTile clearing every tile of the letter, whatever its state.
ResolvedTileAnyState(tile, letter) ==
    IF tile.letter = letter THEN BlankTile ELSE tile

\* handleResolveConflict's change of one tile.
ResolvedTile(tile, letter) ==
    IF tile.letter = letter /\ tile.state = "grey" THEN BlankTile ELSE tile

-----------------------------------------------------------------------------
(* SpecApp: the handlers of the App from every grid it can restore on       *)
(* mount.  A restored grid is one the App saved, so it is any grid of       *)
(* blank and lettered tiles, with the cursor where it was saved.            *)

AppLetters == {toLowerCase(key) : key \in AppKeys}

AppTiles ==
    {BlankTile} \cup {Tile(letter, state) : letter \in AppLetters, state \in LetteredStates}

AppGrids == [1..MAX_ROWS -> [1..WORD_LENGTH -> AppTiles]]

\* The lengths of the undo history in the model.
AppHistoryLengths == 1..2

appLibraryVars == <<pc, guess, answer, pattern, words, candidates, score, probeVars, calls>>

\* The render after gridUndo became u: grid, constraints and conflicts.
Render(u) ==
    /\ history' = u.history
    /\ index' = u.index
    /\ grid' = current(u)
    /\ constraints' = buildConstraintsFromGrid(grid')
    /\ conflicts' = detectConflicts(constraints')
    /\ UNCHANGED appLibraryVars

\* gridUndo.set(newGrid)
Push(newGrid) ==
    /\ Len(set(hook, newGrid).history) \in AppHistoryLengths
    /\ Render(set(hook, newGrid))

InitApp ==
    /\ grid \in AppGrids
    /\ history = reset(useUndoable(EmptyAppGrid), grid).history
    /\ index = reset(useUndoable(EmptyAppGrid), grid).index
    /\ activeRow \in AppRows
    /\ activeCol \in AppColumns
    /\ constraints = buildConstraintsFromGrid(grid)
    /\ conflicts = detectConflicts(constraints)
    /\ calls = Unused
    /\ pc = Unused
    /\ guess = Unused
    /\ answer = Unused
    /\ pattern = Unused
    /\ words = Unused
    /\ candidates = Unused
    /\ score = Unused
    /\ vocabulary = Unused
    /\ limit = Unused
    /\ probes = Unused
    /\ tilt = Unused
    /\ analysis = Unused

handleTileClick(row, col) ==
    LET newGrid == cloneGrid(grid)
        tile    == newGrid[row + 1][col + 1]
    IN  IF tile.letter = ""
        THEN /\ activeRow' = row
             /\ activeCol' = col
             /\ UNCHANGED <<history, index, grid, constraints, conflicts>>
             /\ UNCHANGED appLibraryVars
        ELSE /\ Push([newGrid EXCEPT ![row + 1][col + 1].state = STATE_CYCLE(@)])
             /\ activeRow' = row
             /\ activeCol' = col

handleLetterInput(letter) ==
    LET newGrid == cloneGrid(grid)
    IN  /\ Push([newGrid EXCEPT ![activeRow + 1][activeCol + 1] = TypedTile(@, letter)])
        /\ IF activeCol < WORD_LENGTH - 1
           THEN activeCol' = activeCol + 1 /\ activeRow' = activeRow
           ELSE IF activeRow < MAX_ROWS - 1
           THEN activeRow' = activeRow + 1 /\ activeCol' = 0
           ELSE UNCHANGED <<activeRow, activeCol>>

handleBackspace ==
    LET newGrid == cloneGrid(grid)
        back    == newGrid[activeRow + 1][activeCol + 1].letter = ""
        row     == IF back /\ ~(activeCol > 0) /\ activeRow > 0
                   THEN activeRow - 1 ELSE activeRow
        col     == IF back /\ activeCol > 0 THEN activeCol - 1
                   ELSE IF back /\ activeRow > 0 THEN WORD_LENGTH - 1
                   ELSE activeCol
        tile    == newGrid[row + 1][col + 1]
    IN  IF tile.letter # ""
        THEN /\ Push([newGrid EXCEPT ![row + 1][col + 1] = BlankTile])
             /\ activeRow' = row
             /\ activeCol' = col
        ELSE UNCHANGED vars

handleReset ==
    /\ Render(reset(hook, EmptyAppGrid))
    /\ activeRow' = 0
    /\ activeCol' = 0

handleUndo ==
    /\ Render(undo(hook))
    /\ UNCHANGED <<activeRow, activeCol>>

handleResolveConflict(conflict) ==
    LET newGrid == cloneGrid(grid)
    IN  /\ Push([r \in DOMAIN newGrid |->
                    [col \in DOMAIN newGrid[r] |->
                        ResolvedTile(newGrid[r][col], conflict.letter)]])
        /\ UNCHANGED <<activeRow, activeCol>>

NextApp ==
    \/ \E row \in AppRows, col \in AppColumns : handleTileClick(row, col)
    \/ \E letter \in AppKeys : handleLetterInput(letter)
    \/ handleBackspace
    \/ handleReset
    \/ handleUndo
    \/ \E i \in DOMAIN conflicts : handleResolveConflict(conflicts[i])

SpecApp == InitApp /\ [][NextApp]_vars

-----------------------------------------------------------------------------
(* C22, C29 and C30: the handlers of the App *)

\* The tiles of the grid, by the cursor's numbering.
AppCells == AppRows \X AppColumns

TileAt(g, cell) == g[cell[1] + 1][cell[2] + 1]

\* The cells at which two grids differ.
Changed(before, after) == {cell \in AppCells : TileAt(before, cell) # TileAt(after, cell)}

\* The colour a tap gives a lettered tile: unknown -> grey -> yellow -> green -> grey.
TappedState(state) ==
    CASE state = "unknown" -> "grey"
      [] state = "grey"    -> "yellow"
      [] state = "yellow"  -> "green"
      [] state = "green"   -> "grey"

\* C22: handleTileClick on a lettered tile changes only that tile's state,
\* along unknown -> grey -> yellow -> green -> grey, leaves its letter and the
\* other tiles as they were and pushes one undo entry; on a tile without a
\* letter it leaves the grid and the undo history unchanged and only moves
\* the cursor.
C22_TapCyclesOneTile ==
    [][\A cell \in AppCells :
          handleTileClick(cell[1], cell[2]) =>
              IF TileAt(grid, cell).letter # ""
              THEN /\ Changed(grid, grid') = {cell}
                   /\ TileAt(grid', cell) =
                          Tile(TileAt(grid, cell).letter, TappedState(TileAt(grid, cell).state))
                   /\ history' = Append(SubSeq(history, 1, index + 1), grid')
                   /\ index' = index + 1
              ELSE /\ grid' = grid
                   /\ history' = history
                   /\ index' = index
                   /\ <<activeRow', activeCol'>> = cell]_vars

\* C22 witness: the undo history holds the grid before and after a tap that
\* turned one green tile grey, and the cursor is on that tile.
C22_Witness ==
    /\ Len(history) = 2
    /\ index = 1
    /\ Changed(history[1], grid) = {<<activeRow, activeCol>>}
    /\ TileAt(history[1], <<activeRow, activeCol>>).state = "green"
    /\ TileAt(grid, <<activeRow, activeCol>>).state = "grey"
    /\ TileAt(grid, <<activeRow, activeCol>>).letter
           = TileAt(history[1], <<activeRow, activeCol>>).letter

\* C29: after any sequence of handleLetterInput, handleBackspace,
\* handleTileClick, handleResolveConflict, handleUndo and handleReset the
\* grid keeps its rows and columns, every tile has letter '' exactly when
\* its state is 'empty', and the cursor is within the rows and the columns.
C29_GridAndCursorWellFormed ==
    /\ DOMAIN grid = 1..MAX_ROWS
    /\ \A r \in DOMAIN grid : DOMAIN grid[r] = 1..WORD_LENGTH
    /\ \A cell \in AppCells :
           TileAt(grid, cell).letter = "" <=> TileAt(grid, cell).state = "empty"
    /\ activeRow \in 0..(MAX_ROWS - 1)
    /\ activeCol \in 0..(WORD_LENGTH - 1)

\* C29 witness: a letter typed into the blank last tile of the grid, where
\* the cursor stays.
C29_Witness ==
    /\ Len(history) = 2
    /\ index = 1
    /\ <<activeRow, activeCol>> = <<MAX_ROWS - 1, WORD_LENGTH - 1>>
    /\ Changed(history[1], grid) = {<<activeRow, activeCol>>}
    /\ TileAt(history[1], <<activeRow, activeCol>>) = BlankTile
    /\ TileAt(grid, <<activeRow, activeCol>>).state = "unknown"

\* C30: when c is a conflict of the grid, handleResolveConflict(c) changes
\* only tiles that held c.letter in state 'grey', which are blank afterwards,
\* and the new grid has no conflict for c.letter.
C30_ResolveClearsGreyTilesOfTheLetter ==
    [][\A i \in DOMAIN conflicts :
          handleResolveConflict(conflicts[i]) =>
              /\ \A cell \in Changed(grid, grid') :
                     /\ TileAt(grid, cell) = Tile(conflicts[i].letter, "grey")
                     /\ TileAt(grid', cell) = BlankTile
              /\ \A j \in DOMAIN conflicts' : conflicts'[j].letter # conflicts[i].letter]_vars

\* C30 witness: the grid before had a conflict for a letter, the grid now is
\* that grid with its grey tiles of the letter blank, and has no conflict.
C30_Witness ==
    /\ Len(history) = 2
    /\ index = 1
    /\ conflicts = << >>
    /\ Changed(history[1], grid) # {}
    /\ \E c \in {detectConflicts(buildConstraintsFromGrid(history[1]))[i] :
                    i \in DOMAIN detectConflicts(buildConstraintsFromGrid(history[1]))} :
           /\ \A cell \in AppCells :
                  TileAt(grid, cell) = ResolvedTile(TileAt(history[1], cell), c.letter)
           /\ \E cell \in AppCells :
                  /\ TileAt(history[1], cell).letter = c.letter
                  /\ TileAt(history[1], cell).state \in {"green", "yellow"}

=============================================================================
